---- MODULE Spec2Model ----
(***************************************************************************)
(* Model of the nekokan_music tooling: the ingestion run of doc_regist.py  *)
(* (ledger done.txt, register_doc with its connection retry loop), the     *)
(* retry loop of query.py, the validation utility json_chk.py and the      *)
(* document synthesis of register_doc.                                     *)
(*                                                                         *)
(* One process runs at a time; prog says which entry point was started.    *)
(* Text is modelled as a sequence of one-character strings, so that        *)
(* writing a ledger line and reading it back (split on "\n", strip) is     *)
(* computed the way Python computes it.                                    *)
(***************************************************************************)
EXTENDS Integers, Sequences, FiniteSets, TLC

VARIABLES
    prog,        \* which entry point runs: "doc_regist", "query", "json_chk", "synth"
    pc,          \* position of the process in its code
    db,          \* the directory db/: entry name |-> kind of entry
    run,         \* number of the current run of the ingestion entry point
    listing,     \* files = os.listdir("db") of the current run
    idx,         \* position of the for loop over the listing (1-based)
    processed,   \* main: the in-memory set read from done.txt
    ledger,      \* the text of done.txt (<<>> when the file does not exist)
    attempt,     \* retry loop: the loop variable
    last_exc,    \* retry loop: the variable last_exc
    slept,       \* seconds spent in time.sleep by the current retry loop
    tries,       \* attempts the current retry loop has started
    lastFailure, \* the exception the most recent attempt raised
    raised,      \* the exception that left the function, or NoExc
    loopState,   \* "idle", "running", "returned", "raised", "exhausted"
    store,       \* files whose tracks the collection has accepted
    calls,       \* files register_doc was called with in this run
    subs,        \* files collection.add was called for in this run
    acceptedRun, \* files whose collection.add returned in this run
    raisedRun,   \* files whose register_doc raised in this run
    addRejected, \* a collection.add of the current register_doc call was rejected
    addAgain,    \* collection.add was called again after such a rejection
    prev,        \* summary of the previous ingestion run
    failed_ones, \* json_chk: the list failed_ones
    examined,    \* json_chk: entries json.load was attempted on
    rez,         \* json_chk: what main returned (-1: nothing yet)
    exitcode,    \* json_chk: exit status of the process (-1: still running)
    album,       \* synth: the album record raw_data
    out          \* synth: what the synthesis part of register_doc produced

vars == <<prog, pc, db, run, listing, idx, processed, ledger, attempt, last_exc,
          slept, tries, lastFailure, raised, loopState, store, calls, subs,
          acceptedRun, raisedRun, addRejected, addAgain, prev, failed_ones,
          examined, rez, exitcode, album, out>>

retryVars == <<attempt, last_exc, slept, tries, lastFailure, raised, loopState>>
runVars == <<run, listing, idx, processed, ledger>>
histVars == <<store, calls, subs, acceptedRun, raisedRun, addRejected, addAgain, prev>>
chkVars == <<failed_ones, examined, rez, exitcode>>
synthVars == <<album, out>>

----------------------------------------------------------------------------
(* Bounds of the model *)

MaxFiles == 2
MaxRuns == 2

(* Entry names of db/ the model draws from; one of them differs from another
   only by trailing white space. *)
FileNames == { <<"a">>, <<"b">>, <<"a", " ">> }

(* "json": a well-formed album record; "badjson": a regular file that is not
   JSON; "dir": an entry open() cannot open for reading (a subdirectory).
   register_doc raises alike on the last two (lines 65-66), so the ingestion
   run is given directories of the first two kinds only. *)
EntryKinds == {"json", "badjson", "dir"}
IngestKinds == {"json", "badjson"}

Progs == {"doc_regist", "query", "json_chk", "synth"}

----------------------------------------------------------------------------
(* Text helpers *)

Range(s) == { s[i] : i \in 1..Len(s) }

IsPrefix(s, t) == Len(s) <= Len(t) /\ SubSeq(t, 1, Len(s)) = s

Perms(S) == { s \in [1..Cardinality(S) -> S] :
                \A i, j \in 1..Cardinality(S) : i # j => s[i] # s[j] }

IsSpace(c) == c \in {" ", "\n"}

RECURSIVE lstrip(_)
lstrip(s) == IF s # <<>> /\ IsSpace(Head(s)) THEN lstrip(Tail(s)) ELSE s

RECURSIVE rstrip(_)
rstrip(s) ==
    IF s # <<>> /\ IsSpace(s[Len(s)]) THEN rstrip(SubSeq(s, 1, Len(s) - 1)) ELSE s

strip(s) == rstrip(lstrip(s))

(* Iterating a text file: the lines, each with its "\n". *)
RECURSIVE ReadLines(_, _)
ReadLines(text, cur) ==
    IF text = <<>> THEN (IF cur = <<>> THEN <<>> ELSE <<cur>>)
    ELSE IF Head(text) = "\n"
         THEN <<Append(cur, "\n")>> \o ReadLines(Tail(text), <<>>)
         ELSE ReadLines(Tail(text), Append(cur, Head(text)))

(* main, lines 135-138: processed = {line.strip() for line in f if line.strip()} *)
LoadLedger(text) ==
    { strip(l) : l \in { m \in Range(ReadLines(text, <<>>)) : strip(m) # <<>> } }

(* main, lines 148-149: f.write(file + "\n") in append mode *)
AppendLine(text, file) == text \o file \o <<"\n">>

----------------------------------------------------------------------------
(* The retry loop shared by register_doc and query *)

max_attempts_regist == 10
max_attempts_query == 5
delay_sec == 2

max_attempts == IF prog = "query" THEN max_attempts_query ELSE max_attempts_regist

NoExc == [kind |-> "none", attempt |-> 0]

(* What a call into the client library can raise. *)
ExcKinds == {"ConnectError", "ValueError", "Other"}

(* A rejected call, as opposed to one that did not get through: the client
   library's validation raises ValueError, the store's errors are of other
   classes. *)
IsRejection(k) == k \in {"ValueError", "Other"}

(* except (httpx.ConnectError, ValueError) *)
Caught(k) == k \in {"ConnectError", "ValueError"}

RetryAgain_Inclusive(a) == a <= max_attempts

(* if attempt < max_attempts: sleep and go on *)
RetryAgain(a) == a < max_attempts

(* last_exc = e *)
Remember(old, e) == e

Propagate_MarkAnyway(e) ==
    /\ pc' = IF prog = "doc_regist" THEN "mark" ELSE "aborted"
    /\ raised' = e
    /\ loopState' = "raised"
    /\ raisedRun' = IF prog = "doc_regist" THEN raisedRun \cup {listing[idx]} ELSE raisedRun

(* The exception leaves the function and nothing up the stack handles it. *)
Propagate(e) ==
    /\ pc' = "aborted"
    /\ raised' = e
    /\ loopState' = "raised"
    /\ raisedRun' = IF prog = "doc_regist" THEN raisedRun \cup {listing[idx]} ELSE raisedRun

(* An exception of kind k raised inside the try block of attempt `attempt`. *)
Handle(k) ==
    LET e == [kind |-> k, attempt |-> attempt] IN
    /\ lastFailure' = e
    /\ IF Caught(k)
       THEN /\ last_exc' = Remember(last_exc, e)
            /\ IF RetryAgain(attempt)
               THEN /\ pc' = "sleep"
                    /\ UNCHANGED <<raised, loopState, raisedRun>>
               ELSE Propagate(last_exc')
       ELSE /\ UNCHANGED last_exc
            /\ Propagate(e)

(* time.sleep(delay_sec), then the for loop takes its next value; a loop that
   runs out of values ends and the code after it runs. *)
Sleep ==
    /\ prog \in {"doc_regist", "query"}
    /\ pc = "sleep"
    /\ slept' = slept + delay_sec
    /\ IF attempt + 1 <= max_attempts
       THEN /\ attempt' = attempt + 1
            /\ pc' = "connect"
            /\ UNCHANGED loopState
       ELSE /\ UNCHANGED attempt
            /\ pc' = IF prog = "query" THEN "render" ELSE "mark"
            /\ loopState' = "exhausted"
    /\ UNCHANGED <<prog, db, runVars, last_exc, tries, lastFailure, raised,
                   histVars, chkVars, synthVars>>

----------------------------------------------------------------------------
(* doc_regist.py: main and register_doc *)

cur == listing[idx]

NoPrev == [outcome |-> "none", failed |-> {}, inSubmit |-> FALSE, accepted |-> {}]

(* main, lines 134-141: read done.txt, list db/ (in whatever order the
   platform gives). *)
MainStart ==
    /\ prog = "doc_regist"
    /\ pc = "start"
    /\ processed' = LoadLedger(ledger)
    /\ \E l \in Perms(DOMAIN db) : listing' = l
    /\ idx' = 1
    /\ pc' = "loop"
    /\ UNCHANGED <<prog, db, run, ledger, retryVars, histVars, chkVars, synthVars>>

(* main, line 142: the listing is exhausted, main returns. *)
MainEnd ==
    /\ prog = "doc_regist"
    /\ pc = "loop"
    /\ idx > Len(listing)
    /\ pc' = "done"
    /\ UNCHANGED <<prog, db, runVars, retryVars, histVars, chkVars, synthVars>>

(* main, lines 144-146: if file in processed: continue *)
MainSkip ==
    /\ prog = "doc_regist"
    /\ pc = "loop"
    /\ idx <= Len(listing)
    /\ cur \in processed
    /\ idx' = idx + 1
    /\ UNCHANGED <<prog, pc, db, run, listing, processed, ledger, retryVars,
                   histVars, chkVars, synthVars>>

(* main, line 147: register_doc(f"db/{file}") is called. *)
MainCall ==
    /\ prog = "doc_regist"
    /\ pc = "loop"
    /\ idx <= Len(listing)
    /\ cur \notin processed
    /\ pc' = "register"
    /\ calls' = calls \cup {cur}
    /\ UNCHANGED <<prog, db, runVars, retryVars, store, subs, acceptedRun,
                   raisedRun, addRejected, addAgain, prev, chkVars, synthVars>>

(* register_doc, lines 65-112: open and parse the file, build the documents,
   metadatas and ids (Synthesize below), set up the retry loop.  Only a
   well-formed album record gets through; anything else raises here, outside
   the try block. *)
RegisterPrelude ==
    /\ prog = "doc_regist"
    /\ pc = "register"
    /\ attempt' = 1
    /\ last_exc' = NoExc
    /\ slept' = 0
    /\ tries' = 0
    /\ addRejected' = FALSE
    /\ addAgain' = FALSE
    /\ IF db[cur] = "json"
       THEN /\ pc' = "connect"
            /\ loopState' = "running"
            /\ UNCHANGED <<lastFailure, raised, raisedRun>>
       ELSE /\ lastFailure' = [kind |-> "Other", attempt |-> 0]
            /\ Propagate(lastFailure')
    /\ UNCHANGED <<prog, db, runVars, store, calls, subs, acceptedRun, prev,
                   chkVars, synthVars>>

(* register_doc, lines 115-121: chromadb.HttpClient(...) and
   client.get_or_create_collection(...). *)
RdConnect ==
    /\ prog = "doc_regist"
    /\ pc = "connect"
    /\ tries' = tries + 1
    /\ \/ /\ pc' = "add"
          /\ UNCHANGED <<last_exc, lastFailure, raised, loopState, raisedRun>>
       \/ \E k \in ExcKinds : Handle(k)
    /\ UNCHANGED <<prog, db, runVars, attempt, slept, store, calls, subs,
                   acceptedRun, addRejected, addAgain, prev, chkVars, synthVars>>

(* register_doc, lines 122-124: collection.add(...) inside the try block;
   when it returns, register_doc returns. *)
RdAdd ==
    /\ prog = "doc_regist"
    /\ pc = "add"
    /\ subs' = subs \cup {cur}
    /\ addAgain' = (addAgain \/ addRejected)
    /\ \/ /\ store' = store \cup {cur}
          /\ acceptedRun' = acceptedRun \cup {cur}
          /\ pc' = "mark"
          /\ loopState' = "returned"
          /\ UNCHANGED <<last_exc, lastFailure, raised, raisedRun, addRejected>>
       \/ /\ \E k \in ExcKinds :
                /\ Handle(k)
                /\ addRejected' = (addRejected \/ IsRejection(k))
          /\ UNCHANGED <<store, acceptedRun>>
    /\ UNCHANGED <<prog, db, runVars, attempt, slept, tries, calls, prev,
                   chkVars, synthVars>>

(* main, lines 148-151: register_doc returned; append the name to done.txt
   (the with block closes the file), add it to processed, next file. *)
MarkDone ==
    /\ prog = "doc_regist"
    /\ pc = "mark"
    /\ ledger' = AppendLine(ledger, cur)
    /\ processed' = processed \cup {cur}
    /\ idx' = idx + 1
    /\ pc' = "loop"
    /\ UNCHANGED <<prog, db, run, listing, retryVars, histVars, chkVars, synthVars>>

Running == pc \in {"start", "loop", "register", "connect", "add", "sleep", "mark"}

(* The process is terminated from outside, at any point of the run. *)
Kill ==
    /\ prog = "doc_regist"
    /\ Running
    /\ pc' = "killed"
    /\ UNCHANGED <<prog, db, runVars, retryVars, histVars, chkVars, synthVars>>

(* The entry point is started again; only done.txt and the store persist. *)
Rerun ==
    /\ prog = "doc_regist"
    /\ pc \in {"done", "aborted", "killed"}
    /\ run < MaxRuns
    /\ run' = run + 1
    /\ pc' = "start"
    /\ prev' = [outcome |-> pc, failed |-> raisedRun, inSubmit |-> tries >= 1,
                accepted |-> acceptedRun]
    /\ listing' = <<>>
    /\ idx' = 1
    /\ processed' = {}
    /\ attempt' = 0
    /\ last_exc' = NoExc
    /\ slept' = 0
    /\ tries' = 0
    /\ lastFailure' = NoExc
    /\ raised' = NoExc
    /\ loopState' = "idle"
    /\ calls' = {}
    /\ subs' = {}
    /\ acceptedRun' = {}
    /\ raisedRun' = {}
    /\ addRejected' = FALSE
    /\ addAgain' = FALSE
    /\ UNCHANGED <<prog, db, ledger, store, chkVars, synthVars>>

----------------------------------------------------------------------------
(* query.py: query *)

(* query, lines 11-16 *)
QStart ==
    /\ prog = "query"
    /\ pc = "start"
    /\ attempt' = 1
    /\ last_exc' = NoExc
    /\ loopState' = "running"
    /\ pc' = "connect"
    /\ UNCHANGED <<prog, db, runVars, slept, tries, lastFailure, raised,
                   histVars, chkVars, synthVars>>

(* query, lines 19-22: HttpClient, the embedding function, get_collection *)
QConnect ==
    /\ prog = "query"
    /\ pc = "connect"
    /\ tries' = tries + 1
    /\ \/ /\ pc' = "query"
          /\ UNCHANGED <<last_exc, lastFailure, raised, loopState, raisedRun>>
       \/ \E k \in ExcKinds : Handle(k)
    /\ UNCHANGED <<prog, db, runVars, attempt, slept, store, calls, subs,
                   acceptedRun, addRejected, addAgain, prev, chkVars, synthVars>>

(* query, lines 23-28: collection.query(...), then break *)
QQuery ==
    /\ prog = "query"
    /\ pc = "query"
    /\ \/ /\ pc' = "render"
          /\ loopState' = "returned"
          /\ UNCHANGED <<last_exc, lastFailure, raised, raisedRun>>
       \/ \E k \in ExcKinds : Handle(k)
    /\ UNCHANGED <<prog, db, runVars, attempt, slept, tries, store, calls, subs,
                   acceptedRun, addRejected, addAgain, prev, chkVars, synthVars>>

(* query, lines 37-45: print the results; results is bound only when the
   loop was left by break. *)
QRender ==
    /\ prog = "query"
    /\ pc = "render"
    /\ IF loopState = "returned"
       THEN /\ pc' = "done"
            /\ UNCHANGED <<lastFailure, raised, loopState, raisedRun>>
       ELSE /\ lastFailure' = [kind |-> "Other", attempt |-> 0]
            /\ Propagate(lastFailure')
    /\ UNCHANGED <<prog, db, runVars, attempt, last_exc, slept, tries, store,
                   calls, subs, acceptedRun, addRejected, addAgain, prev, chkVars,
                   synthVars>>

----------------------------------------------------------------------------
(* json_chk.py: main and the __main__ block *)

(* str(db_dir / file) *)
FPath(file) == <<"d", "b", "/">> \o file

(* main, lines 8-12: failed_ones = [], listdir(db_dir) *)
JcStart ==
    /\ prog = "json_chk"
    /\ pc = "start"
    /\ failed_ones' = <<>>
    /\ \E l \in Perms(DOMAIN db) : listing' = l
    /\ idx' = 1
    /\ pc' = "loop"
    /\ UNCHANGED <<prog, db, run, processed, ledger, retryVars, histVars,
                   examined, rez, exitcode, synthVars>>

(* main, lines 12-19: one iteration.  open(fpath) stands outside the try
   block; json.load(fp) inside it. *)
JcIter ==
    /\ prog = "json_chk"
    /\ pc = "loop"
    /\ idx <= Len(listing)
    /\ IF db[cur] = "dir"
       THEN /\ pc' = "aborted"
            /\ exitcode' = 1
            /\ UNCHANGED <<idx, failed_ones, examined>>
       ELSE /\ examined' = examined \cup {cur}
            /\ failed_ones' = IF db[cur] = "badjson"
                              THEN Append(failed_ones, FPath(cur))
                              ELSE failed_ones
            /\ idx' = idx + 1
            /\ UNCHANGED <<pc, exitcode>>
    /\ UNCHANGED <<prog, db, run, listing, processed, ledger, retryVars,
                   histVars, rez, synthVars>>

(* main, lines 21-28 *)
JcReport ==
    /\ prog = "json_chk"
    /\ pc = "loop"
    /\ idx > Len(listing)
    /\ rez' = IF Len(failed_ones) = 0 THEN 0 ELSE 1
    /\ pc' = "returned"
    /\ UNCHANGED <<prog, db, runVars, retryVars, histVars, failed_ones,
                   examined, exitcode, synthVars>>

(* lines 31-34: rez = main(); if rez != 0: exit(1) *)
JcExit ==
    /\ prog = "json_chk"
    /\ pc = "returned"
    /\ exitcode' = IF rez # 0 THEN 1 ELSE 0
    /\ pc' = "done"
    /\ UNCHANGED <<prog, db, runVars, retryVars, histVars, failed_ones,
                   examined, rez, synthVars>>

----------------------------------------------------------------------------
(* doc_regist.py: the synthesis part of register_doc, lines 73-107 *)

MaxPeople == 2
MaxTracks == 2

PersonNames == {"Jane Doe", "Miles Davis"}
TrackNos == {1, 2}
DiscNos == {1, 2}
TrackTitles == {"Allegro", "Adagio"}
AlbumId == <<"A", "1">>

PeopleLists ==
    UNION { [1..n -> { [name |-> p] : p \in PersonNames }] : n \in 0..MaxPeople }

(* personnel structures: any of the roles may be absent or an empty list *)
Personnels ==
    UNION { [D -> PeopleLists] : D \in SUBSET {"leader", "soloists"} }

TrackBase ==
    { [no |-> n, title |-> t, composer |-> <<"Bach">>] :
        n \in TrackNos, t \in TrackTitles }

(* a track with or without the key disc_no *)
Tracks ==
    TrackBase \cup
    { [no |-> t.no, title |-> t.title, composer |-> t.composer, disc_no |-> d] :
        t \in TrackBase, d \in DiscNos }

TrackLists == UNION { [1..n -> Tracks] : n \in 0..MaxTracks }

AlbumCore(ts) ==
    [id |-> AlbumId, title |-> "Test", label |-> "L", record_year |-> <<1960>>,
     score |-> 5, comment |-> "Nice", tracks |-> ts]

WithKey(a, key, v) == [k \in DOMAIN a \cup {key} |-> IF k = key THEN v ELSE a[k]]

(* Album records; the keys personnel and release_year may be absent.  Every
   personnel structure comes with the track lists of at most one track, and
   every track list with no personnel and with the one soloist of the spec's
   end-to-end album. *)
Albums ==
    LET jane == [soloists |-> << [name |-> "Jane Doe"] >>]
        short == { AlbumCore(ts) : ts \in { l \in TrackLists : Len(l) <= 1 } }
        cores == { AlbumCore(ts) : ts \in TrackLists }
        pers == cores \cup { WithKey(a, "personnel", jane) : a \in cores }
                \cup { WithKey(a, "personnel", p) : a \in short, p \in Personnels }
    IN  pers \cup { WithKey(a, "release_year", 1961) : a \in pers }

NoAlbum == [id |-> <<>>]
NoOut == [status |-> "none"]

DigitChars == <<"0", "1", "2", "3", "4", "5", "6", "7", "8", "9">>

(* str(n) of a natural number: its decimal digits *)
RECURSIVE Str(_)
Str(n) == IF n < 10 THEN <<DigitChars[n + 1]>>
          ELSE Str(n \div 10) \o <<DigitChars[(n % 10) + 1]>>

(* sep.join(items), as a sequence of pieces *)
RECURSIVE Join(_, _)
Join(items, sep) ==
    IF items = <<>> THEN <<>>
    ELSE IF Len(items) = 1 THEN <<items[1]>>
    ELSE <<items[1], sep>> \o Join(Tail(items), sep)

RECURSIVE Flatten(_)
Flatten(ss) == IF ss = <<>> THEN <<>> ELSE Head(ss) \o Flatten(Tail(ss))

NamesOf(people) == [i \in 1..Len(people) |-> people[i].name]

(* "role" in personnel and personnel["role"] *)
HasPeople(personnel, role) ==
    role \in DOMAIN personnel /\ Len(personnel[role]) > 0

(* lines 11-33 *)
_personnel_to_text(personnel) ==
    LET part(role, label) ==
            IF HasPeople(personnel, role)
            THEN << <<label>> \o Join(NamesOf(personnel[role]), ", ") >>
            ELSE <<>>
        parts == part("leader", "Leader: ") \o part("sidemen", "Sidemen: ")
                 \o part("conductor", "Conductor: ")
                 \o part("orchestra", "Orchestra: ")
                 \o part("soloists", "Soloists: ")
        RECURSIVE joined(_)
        joined(ps) == IF Len(ps) = 1 THEN ps[1]
                      ELSE ps[1] \o <<"; ">> \o joined(Tail(ps))
    IN  IF DOMAIN personnel = {} \/ parts = <<>> THEN <<>>
        ELSE <<"Personnel: ">> \o joined(parts) \o <<". ">>

_primary_artist_LeaderFirst(personnel) ==
    IF DOMAIN personnel = {} THEN ""
    ELSE IF HasPeople(personnel, "leader") THEN personnel["leader"][1].name
    ELSE IF HasPeople(personnel, "soloists") THEN personnel["soloists"][1].name
    ELSE ""

(* lines 36-44 *)
_primary_artist(personnel) ==
    IF DOMAIN personnel = {} THEN ""
    ELSE IF HasPeople(personnel, "soloists") THEN personnel["soloists"][1].name
    ELSE IF HasPeople(personnel, "leader") THEN personnel["leader"][1].name
    ELSE ""

(* lines 46-60; the Japanese texts are named by their meaning *)
calculate_passage(score) ==
    CASE score = 6 -> "hyouka: dendou-iri, saikou, shikou."
      [] score = 5 -> "hyouka: taihen yoi."
      [] score = 4 -> "hyouka: yoi."
      [] score = 3 -> "hyouka: futsuu."
      [] score = 2 -> "hyouka: warui."
      [] score = 1 -> "hyouka: taihen warui."
      [] OTHER -> "hyouka: fumei."

MakeId_NoDisc(raw_data, track) ==
    raw_data["id"] \o <<"_", "T">> \o Str(track["no"])

(* line 107: f"{track['disc_no']}_{raw_data['id']}_T{track['no']}" *)
MakeId(raw_data, track) ==
    Str(track["disc_no"]) \o <<"_">> \o raw_data["id"] \o <<"_", "T">> \o Str(track["no"])

(* lines 83-90 *)
DocContent(raw_data, track, personnel_text) ==
    <<"passage: ", calculate_passage(raw_data["score"]),
      "Title: ", raw_data["title"], " - ", track["title"], ". ">>
    \o personnel_text
    \o <<"Composer: ">> \o Join(track["composer"], ", ") \o <<". ">>
    \o <<"score: ">> \o Str(raw_data["score"]) \o <<". ">>
    \o <<"Review: ", raw_data["comment"]>>

(* lines 95-104 *)
MakeMetadata(raw_data, track, primary_artist) ==
    [album_id |-> raw_data["id"],
     label |-> raw_data["label"],
     release_year |-> raw_data["release_year"],
     record_year |-> Flatten(Join([i \in 1..Len(raw_data["record_year"]) |->
                                      Str(raw_data["record_year"][i])],
                                  <<",", " ">>)),
     disc_no |-> track["disc_no"],
     track_no |-> track["no"],
     soloist |-> primary_artist,
     primary_composer |-> track["composer"][1]]

(* The key whose lookup raises KeyError while the track is processed, in the
   order the lookups are evaluated, or "" when none does. *)
MissingKey(raw_data, track) ==
    IF "release_year" \notin DOMAIN raw_data THEN "release_year"
    ELSE IF "disc_no" \notin DOMAIN track THEN "disc_no"
    ELSE ""

(* lines 73-107: personnel text and primary artist once, then the loop over
   the tracks; the first track with a missing key ends it with KeyError. *)
Synthesize(raw_data) ==
    LET personnel == IF "personnel" \in DOMAIN raw_data
                     THEN raw_data["personnel"] ELSE <<>>
        personnel_text == _personnel_to_text(personnel)
        primary_artist == _primary_artist(personnel)
        tracks == raw_data["tracks"]
        bad == { i \in 1..Len(tracks) : MissingKey(raw_data, tracks[i]) # "" }
    IN  IF bad # {}
        THEN [status |-> "KeyError",
              key |-> MissingKey(raw_data,
                        tracks[CHOOSE i \in bad : \A j \in bad : i <= j]),
              primary_artist |-> primary_artist]
        ELSE [status |-> "ok",
              primary_artist |-> primary_artist,
              documents |-> [i \in 1..Len(tracks) |->
                               DocContent(raw_data, tracks[i], personnel_text)],
              metadatas |-> [i \in 1..Len(tracks) |->
                               MakeMetadata(raw_data, tracks[i], primary_artist)],
              ids |-> [i \in 1..Len(tracks) |-> MakeId(raw_data, tracks[i])]]

SynthRun ==
    /\ prog = "synth"
    /\ pc = "start"
    /\ out' = Synthesize(album)
    /\ pc' = IF out'.status = "ok" THEN "done" ELSE "aborted"
    /\ UNCHANGED <<prog, db, runVars, retryVars, histVars, chkVars, album>>

----------------------------------------------------------------------------

Dirs(kinds) ==
    UNION { [S -> kinds] : S \in { T \in SUBSET FileNames : Cardinality(T) <= MaxFiles } }

Init ==
    /\ prog \in Progs
    /\ pc = "start"
    /\ db \in CASE prog = "doc_regist" -> Dirs(IngestKinds)
                 [] prog = "json_chk" -> Dirs(EntryKinds)
                 [] OTHER -> { <<>> }
    /\ album \in (IF prog = "synth" THEN Albums ELSE { NoAlbum })
    /\ out = NoOut
    /\ run = 1
    /\ listing = <<>>
    /\ idx = 1
    /\ processed = {}
    /\ ledger = <<>>
    /\ attempt = 0
    /\ last_exc = NoExc
    /\ slept = 0
    /\ tries = 0
    /\ lastFailure = NoExc
    /\ raised = NoExc
    /\ loopState = "idle"
    /\ store = {}
    /\ calls = {}
    /\ subs = {}
    /\ acceptedRun = {}
    /\ raisedRun = {}
    /\ addRejected = FALSE
    /\ addAgain = FALSE
    /\ prev = NoPrev
    /\ failed_ones = <<>>
    /\ examined = {}
    /\ rez = -1
    /\ exitcode = -1

Next ==
    \/ MainStart \/ MainEnd \/ MainSkip \/ MainCall
    \/ RegisterPrelude \/ RdConnect \/ RdAdd \/ Sleep \/ MarkDone
    \/ Kill \/ Rerun
    \/ QStart \/ QConnect \/ QQuery \/ QRender
    \/ JcStart \/ JcIter \/ JcReport \/ JcExit
    \/ SynthRun

Spec == Init /\ [][Next]_vars

----------------------------------------------------------------------------
(* Properties of the ingestion run *)

(* C1: ledger idempotence.  When the previous run of main completed without
   error and done.txt persisted, the run over the same directory skips every
   file: it calls register_doc for none and submits nothing. *)
CE_C1 ==
    (prog = "doc_regist" /\ prev.outcome = "done") =>
        (calls = {} /\ subs = {})

(* C2: ledger durability under partial failure.  When in the previous run
   some file was ingested and afterwards the submission of file X failed
   (register_doc raised out of its retry loop and the run aborted), the
   rerun calls register_doc for none of the ingested files, and has called it
   for X by the time it completes. *)
CE_C2 ==
    (prog = "doc_regist" /\ prev.outcome = "aborted"
       /\ prev.accepted # {} /\ prev.failed # {} /\ prev.inSubmit) =>
        /\ calls \cap prev.accepted = {}
        /\ pc = "done" => prev.failed \subseteq calls

(* C3: a bulk submission the store rejects is not retried.  Once
   collection.add has raised for the file, whatever the rejection, that was
   the only collection.add of this register_doc call and the error has left
   main (the run is over); done.txt is then not written for the file. *)
CE_C3 ==
    (prog = "doc_regist" /\ addRejected) =>
        (~addAgain /\ pc \in {"aborted", "killed"})

(* C4: resuming after an external termination.  When the previous run was
   killed, at whatever point, the rerun submits no file whose tracks the store
   accepted in the killed run. *)
CE_C4 ==
    (prog = "doc_regist" /\ prev.outcome = "killed") =>
        subs \cap prev.accepted = {}

(* C5: the ledger only grows, and only by files ingested in this run.  Every
   step of a run leaves done.txt as it is or appends one line to it, the name
   of a file whose collection.add returned earlier in the same run and whose
   register_doc did not raise; after a register_doc raised, the run writes
   nothing more. *)
Thm_C5 ==
    [][ prog = "doc_regist" =>
          /\ IsPrefix(ledger, ledger')
          /\ ledger' # ledger =>
               \E f \in acceptedRun \ raisedRun : ledger' = AppendLine(ledger, f)
          /\ raisedRun # {} => ledger' = ledger ]_vars

(* A run that appended a file and then aborted on a later one whose
   submission was rejected. *)
Wit_C5 ==
    /\ prog = "doc_regist"
    /\ pc = "aborted"
    /\ run = 1
    /\ ledger # <<>>
    /\ addRejected
    /\ raisedRun # {}

(* C6: the retry loop is bounded and surfaces the last failure.  At most
   max_attempts attempts are started (10 in register_doc, 5 in query); a
   successful attempt is the last one; the loop never runs out of attempts
   without raising; 2 seconds are slept between two attempts and never after
   the last one; and an exception that leaves the loop is the one the last
   attempt raised, a caught kind (connect error, ValueError) leaving it only
   from attempt max_attempts. *)
Thm_C6 ==
    LET m == IF prog = "query" THEN 5 ELSE 10 IN
    prog \in {"doc_regist", "query"} =>
        /\ tries <= m
        /\ loopState # "exhausted"
        /\ loopState = "returned" => tries = attempt
        /\ slept <= 2 * tries
        /\ pc = "sleep" => tries < m
        /\ (loopState \in {"returned", "raised"} /\ tries >= 1) =>
               slept = 2 * (tries - 1)
        /\ loopState = "raised" => raised = lastFailure
        /\ (loopState = "raised" /\ raised.kind \in {"ConnectError", "ValueError"}) =>
               (tries = m /\ raised.attempt = m)

(* register_doc gave up after ten attempts, the first nine of which failed
   with another kind than the last. *)
Wit_C6 ==
    /\ prog = "doc_regist"
    /\ loopState = "raised"
    /\ tries = 10
    /\ slept = 18
    /\ raised = [kind |-> "ConnectError", attempt |-> 10]

----------------------------------------------------------------------------
(* Properties of the document synthesis *)

SynthDone == prog = "synth" /\ pc # "start"

PersonnelOf(a) == IF "personnel" \in DOMAIN a THEN a["personnel"] ELSE <<>>

(* C7: for an album whose tracks carry no disc number (the other keys being
   there), synthesis succeeds and track i gets the id "<album_id>_T<no>"
   without a disc-number prefix, and the metadata soloist = primary artist,
   primary_composer = first composer, album_id = the album's id; a track that
   carries disc_no gets the prefix "<disc_no>_". *)
CE_C7 ==
    (SynthDone /\ "release_year" \in DOMAIN album) =>
        LET ts == album["tracks"] IN
        /\ out.status = "ok"
        /\ \A i \in 1..Len(ts) :
             /\ out.ids[i] =
                  (IF "disc_no" \in DOMAIN ts[i]
                   THEN Str(ts[i]["disc_no"]) \o <<"_">> ELSE <<>>)
                  \o album["id"] \o <<"_", "T">> \o Str(ts[i]["no"])
             /\ out.metadatas[i].soloist = out.primary_artist
             /\ out.metadatas[i].primary_composer = ts[i]["composer"][1]
             /\ out.metadatas[i].album_id = album["id"]

(* C8 as stated: any two distinct tracks of an album record get different
   ids. *)
CE_C8 ==
    (SynthDone /\ out.status = "ok") =>
        \A i, j \in 1..Len(album["tracks"]) :
            album["tracks"][i] # album["tracks"][j] => out.ids[i] # out.ids[j]

(* C8, amended: two tracks of an album record that differ in disc number or
   in track number get different ids (and two that share both get the same
   id, whatever else differs). *)
Thm_C8 ==
    (SynthDone /\ out.status = "ok") =>
        \A i, j \in 1..Len(album["tracks"]) :
            LET t == album["tracks"][i]
                u == album["tracks"][j]
            IN  (out.ids[i] = out.ids[j]) <=>
                    (t["disc_no"] = u["disc_no"] /\ t["no"] = u["no"])

(* Two tracks with the same number on different discs were given ids. *)
Wit_C8 ==
    /\ SynthDone
    /\ out.status = "ok"
    /\ Len(album["tracks"]) = 2
    /\ album["tracks"][1]["no"] = album["tracks"][2]["no"]
    /\ album["tracks"][1]["disc_no"] # album["tracks"][2]["disc_no"]

(* C9: the precedence of _primary_artist.  The first soloist's name whenever
   soloists is non-empty, whatever the leader list; else the first leader's
   name when leader is non-empty; else the empty text (also for an absent or
   empty personnel). *)
Thm_C9 ==
    SynthDone =>
        LET p == PersonnelOf(album)
            some(role) == role \in DOMAIN p /\ p[role] # <<>>
        IN  /\ some("soloists") => out.primary_artist = p["soloists"][1].name
            /\ (~some("soloists") /\ some("leader")) =>
                   out.primary_artist = p["leader"][1].name
            /\ (~some("soloists") /\ ~some("leader")) => out.primary_artist = ""

(* Soloists and leaders both given, with different first names. *)
Wit_C9 ==
    /\ SynthDone
    /\ DOMAIN PersonnelOf(album) = {"leader", "soloists"}
    /\ Len(album["personnel"]["soloists"]) = 2
    /\ Len(album["personnel"]["leader"]) = 2
    /\ album["personnel"]["soloists"][1] # album["personnel"]["leader"][1]
    /\ album["personnel"]["soloists"][1] # album["personnel"]["soloists"][2]

----------------------------------------------------------------------------
(* Properties of the validation utility *)

BadJson == { f \in DOMAIN db : db[f] = "badjson" }

(* C10: when the utility has ended, it has examined every entry of db/, its
   outcome is non-zero (main returned 1, exit status 1) exactly when some
   file failed to parse, otherwise 0, and the failure list is exactly the
   files that failed. *)
CE_C10 ==
    (prog = "json_chk" /\ pc \in {"done", "aborted"}) =>
        /\ examined = DOMAIN db
        /\ rez = (IF BadJson # {} THEN 1 ELSE 0)
        /\ exitcode = (IF BadJson # {} THEN 1 ELSE 0)
        /\ Range(failed_ones) = { FPath(f) : f \in BadJson }

====
